---- MODULE Spec2Model ----
(***************************************************************************)
(* The quiz-attempt screen of pdf-to-quiz (QuizAttemptPage,                *)
(* src/src/app/quiz/[id]/attempt/page.tsx) as a state machine.             *)
(*                                                                         *)
(* The component is a React function component.  Its hook state is the     *)
(* variables quiz .. loading; `user` is the value of the auth context.     *)
(* Every handler is a closure of one render: it READS the values that      *)
(* render saw (`rendered`) and WRITES the hook state.  The countdown       *)
(* interval holds the handleSubmit closure of the render in which its      *)
(* effect last ran (`interval`), because the effect's dependency list is   *)
(* [timeLeft, submitted, loading] only.                                    *)
(*                                                                         *)
(* Updates made inside a DOM event handler are committed before the next   *)
(* event is handled, so a user action includes the re-render it causes.    *)
(* Updates made from a timer callback or a promise continuation are only   *)
(* queued; the re-render is a step of its own (Render).                    *)
(***************************************************************************)
EXTENDS Integers, Sequences, FiniteSets, TLC

\* ---------------------------------------------------------------- bounds
MaxQuestions == 2       \* the loader returns 0..MaxQuestions questions
MaxTimerMinutes == 1    \* timer_minutes of the loaded quiz is 1..MaxTimerMinutes
UserWindow == 1         \* user input is enumerated while timeLeft <= UserWindow

\* ------------------------------------------------------ program constants
SecondsPerMinute == 60  \* setTimeLeft(mappedQuiz.timerMinutes * 60)
DefaultTotal == 50      \* total_questions: questions.length || 50
DefaultTimer == 30      \* useState(30) of the new-quiz screen
MaxCustomTimer == 300   \* num > 0 && num <= 300

Absent == "absent"      \* no present answer (key missing or undefined)
NoUser == "null"        \* useAuth().user === null
Users == {"u1"}
\* the option cards the user clicks; two of the four keys give both the
\* "same option again" and the "different option" case of selectAnswer
Choices == {"A", "B"}
OptionKeys == {"A", "B", "C", "D"}   \* type OptionKey
QNums == 1..MaxQuestions

VARIABLES
    quiz,             \* useState<Quiz | null>(null)
    questions,        \* useState<Question[]>([]): the questionNumber of each index
    answers,          \* useState<Record<number, OptionKey>>({})
    currentQ,         \* useState(0)
    visited,          \* useState(new Set([0]))
    markedForReview,  \* useState(new Set())
    timeLeft,         \* useState(0)
    submitted,        \* useState(false)
    loading,          \* useState(true)
    user,             \* useAuth().user
    rendered,         \* the values the last committed render closed over
    interval,         \* the live setInterval and the handleSubmit closure it calls
    loadPc,           \* position of the async load(): "quiz", "questions", "done"
    attempts,         \* inserts sent to the attempts table, in order
    calls,            \* the running handleSubmit continuation of each insert
    mounted,          \* the attempt screen is on screen
    route,            \* last router.push target
    lastOp,           \* history: the handler the last click ran (SpecOps only)
    db,               \* results view: the quiz's rows in quizzes, questions, attempts
    results,          \* results view: QuizResultsPage's hook state and load() position
    newQuiz           \* new-quiz screen: NewQuizPage's hook state and the rows it inserted

state == <<quiz, questions, answers, currentQ, visited, markedForReview,
           timeLeft, submitted, loading, user>>
vars == <<quiz, questions, answers, currentQ, visited, markedForReview,
          timeLeft, submitted, loading, user, rendered, interval, loadPc,
          attempts, calls, mounted, route, lastOp, db, results, newQuiz>>

\* the state of the other two screens
otherPages == <<db, results, newQuiz>>

NullQuiz == [isNull |-> TRUE, timerMinutes |-> 0]
NoAnswers == [q \in QNums |-> Absent]

\* what a render closes over
View(qz, qs, a, c, s, l, t, u) ==
    [quiz |-> qz, questions |-> qs, answers |-> a, currentQ |-> c,
     submitted |-> s, loading |-> l, timeLeft |-> t, user |-> u]

\* the handleSubmit useCallback of a render: its closed-over values
SubmitClosure(r) ==
    [submitted |-> r.submitted, user |-> r.user, quiz |-> r.quiz,
     answers |-> r.answers, questions |-> r.questions]

InitView == View(NullQuiz, <<>>, NoAnswers, 0, FALSE, TRUE, 0, NoUser)
NoInterval == [active |-> FALSE, handleSubmit |-> SubmitClosure(InitView)]

Init ==
    /\ quiz = NullQuiz
    /\ questions = <<>>
    /\ answers = NoAnswers
    /\ currentQ = 0
    /\ visited = {0}
    /\ markedForReview = {}
    /\ timeLeft = 0
    /\ submitted = FALSE
    /\ loading = TRUE
    /\ user \in Users \cup {NoUser}
    /\ rendered = View(quiz, questions, answers, currentQ, submitted, loading,
                       timeLeft, user)
    /\ interval = NoInterval
    /\ loadPc = "quiz"
    /\ attempts = <<>>
    /\ calls = <<>>
    /\ mounted = TRUE
    /\ route = "attempt"
    /\ lastOp = "none"
    /\ db = "unused"
    /\ results = "unused"
    /\ newQuiz = "unused"

\* hook state or context value changed since the last committed render
Dirty ==
    rendered # View(quiz, questions, answers, currentQ, submitted, loading,
                    timeLeft, user)

\* The countdown effect of one commit: it runs again only when one of its
\* dependencies [timeLeft, submitted, loading] changed; then the old interval
\* is cleared and a new one is set unless the guard returns.
CountdownEffect(old, new) ==
    IF <<new.timeLeft, new.submitted, new.loading>>
         = <<old.timeLeft, old.submitted, old.loading>>
    THEN interval
    ELSE IF new.timeLeft <= 0 \/ new.submitted \/ new.loading
         THEN NoInterval
         ELSE [active |-> TRUE, handleSubmit |-> SubmitClosure(new)]

\* commit a render of the state this step produces
Commit ==
    /\ rendered' = View(quiz', questions', answers', currentQ', submitted',
                        loading', timeLeft', user')
    /\ interval' = CountdownEffect(rendered, rendered')

Render ==
    /\ mounted
    /\ Dirty
    /\ UNCHANGED state
    /\ Commit
    /\ UNCHANGED <<loadPc, attempts, calls, mounted, route>>

\* ------------------------------------------------------------- load()
\* First await of load(): the quiz row.  An error or no row pushes the
\* dashboard and returns with loading still true; otherwise setQuiz and
\* setTimeLeft(timerMinutes * 60) are queued.
\* variant: the minutes are stored without the conversion to seconds
InitialSecondsNoScale(qz) == qz.timerMinutes

InitialSeconds(qz) == qz.timerMinutes * SecondsPerMinute

LoadQuizFails ==
    /\ mounted
    /\ loadPc = "quiz"
    /\ loadPc' = "done"
    /\ route' = "dashboard"
    /\ mounted' = FALSE
    /\ interval' = NoInterval
    /\ UNCHANGED <<state, rendered, attempts, calls>>

LoadQuiz(m) ==
    /\ mounted
    /\ loadPc = "quiz"
    /\ quiz' = [isNull |-> FALSE, timerMinutes |-> m]
    /\ timeLeft' = InitialSeconds(quiz')
    /\ loadPc' = "questions"
    /\ UNCHANGED <<questions, answers, currentQ, visited, markedForReview,
                   submitted, loading, user, rendered, interval, attempts,
                   calls, mounted, route>>

\* Second await of load(): the question rows, ordered by question_number.
\* n = 0 is both an empty result and a failed query (qData null): setQuestions
\* is skipped and only setLoading(false) is queued.
LoadQuestions(n) ==
    /\ mounted
    /\ loadPc = "questions"
    /\ questions' = IF n > 0 THEN [i \in 1..n |-> i] ELSE questions
    /\ loading' = FALSE
    /\ loadPc' = "done"
    /\ UNCHANGED <<quiz, answers, currentQ, visited, markedForReview, timeLeft,
                   submitted, user, rendered, interval, attempts, calls,
                   mounted, route>>

\* AuthProvider: getSession / onAuthStateChange call setUser; the provider
\* re-renders the page with the new context value
AuthChange(u) ==
    /\ mounted
    /\ u # user
    /\ user' = u
    /\ UNCHANGED <<quiz, questions, answers, currentQ, visited, markedForReview,
                   timeLeft, submitted, loading, loadPc, attempts, calls,
                   mounted, route>>
    /\ Commit

\* ------------------------------------------------------- handleSubmit
\* The synchronous part of handleSubmit as closed over by one render (c):
\* the guard, setSubmitted(true) and the insert into attempts.
TotalQuestions(c) ==
    IF Len(c.questions) = 0 THEN DefaultTotal ELSE Len(c.questions)

handleSubmit(c) ==
    IF c.submitted \/ c.user = NoUser \/ c.quiz.isNull
    THEN UNCHANGED <<submitted, attempts, calls>>
    ELSE /\ submitted' = TRUE
         /\ attempts' = Append(attempts,
                [user_id |-> c.user, answers |-> c.answers,
                 total_questions |-> TotalQuestions(c)])
         /\ calls' = Append(calls, [pc |-> "insert", attemptData |-> FALSE])

\* variant: a failed insert rolls the submitted flag back
SubmitReturnsRollback(i, ok) ==
    /\ i \in DOMAIN calls
    /\ calls[i].pc = "insert"
    /\ calls' = [calls EXCEPT ![i] = [pc |-> "done", attemptData |-> ok]]
    /\ route' = IF ok THEN "results?attemptId" ELSE "results"
    /\ mounted' = FALSE
    /\ interval' = NoInterval
    /\ submitted' = (submitted /\ ok)
    /\ UNCHANGED <<quiz, questions, answers, currentQ, visited, markedForReview,
                   timeLeft, loading, user, rendered, loadPc, attempts>>

\* variant: a failed insert sends the user back to the dashboard
SubmitReturnsDashboardOnFail(i, ok) ==
    /\ i \in DOMAIN calls
    /\ calls[i].pc = "insert"
    /\ calls' = [calls EXCEPT ![i] = [pc |-> "done", attemptData |-> ok]]
    /\ route' = IF ok THEN "results?attemptId" ELSE "dashboard"
    /\ mounted' = FALSE
    /\ interval' = NoInterval
    /\ UNCHANGED <<state, rendered, loadPc, attempts>>

\* The rest of one handleSubmit call: the insert returns (attemptData is the
\* new row, or null when the insert failed), the update of quizzes.status is
\* sent and returns, and router.push goes to the results view, with the
\* attempt id when there is one.  The attempt screen unmounts and its
\* interval is cleared.
SubmitReturns(i, ok) ==
    /\ i \in DOMAIN calls
    /\ calls[i].pc = "insert"
    /\ calls' = [calls EXCEPT ![i] = [pc |-> "done", attemptData |-> ok]]
    /\ route' = IF ok THEN "results?attemptId" ELSE "results"
    /\ mounted' = FALSE
    /\ interval' = NoInterval
    /\ UNCHANGED <<state, rendered, loadPc, attempts>>

\* ---------------------------------------------------- countdown timer
\* the updater passed to setTimeLeft
TimeLeftAfter(prev) == IF prev <= 1 THEN 0 ELSE prev - 1

\* One firing of the interval.  The updater is evaluated as the firing
\* queues it and, when prev <= 1, calls the handleSubmit the interval closed
\* over; the state it sets is queued, and the re-render is a later step, so
\* a click can be handled in between with the closures of the old render.
\* The render the previous firing queued is committed long before the next
\* firing (one second later).
Tick ==
    /\ mounted
    /\ interval.active
    /\ ~Dirty
    /\ timeLeft' = TimeLeftAfter(timeLeft)
    /\ IF timeLeft <= 1
       THEN handleSubmit(interval.handleSubmit)
       ELSE UNCHANGED <<submitted, attempts, calls>>
    /\ UNCHANGED <<quiz, questions, answers, currentQ, visited, markedForReview,
                   loading, user, rendered, interval, loadPc, mounted, route>>

\* ---------------------------------------------------------- handlers
\* questions[index]?.questionNumber; 0 stands for undefined (falsy)
questionNumber(r, index) ==
    IF index + 1 \in DOMAIN r.questions THEN r.questions[index + 1] ELSE 0

\* variant: the upper bound of the range test is missing
goToTargetNoUpperBound(index) ==
    IF index < 0
    THEN [currentQ |-> currentQ, visited |-> visited]
    ELSE [currentQ |-> index, visited |-> visited \cup {index}]

\* variant: the index is not recorded as visited
goToTargetNoVisit(index) ==
    IF index < 0 \/ index >= Len(rendered.questions)
    THEN [currentQ |-> currentQ, visited |-> visited]
    ELSE [currentQ |-> index, visited |-> visited]

\* what goToQuestion(index) leaves in currentQ and visited
goToTarget(index) ==
    IF index < 0 \/ index >= Len(rendered.questions)
    THEN [currentQ |-> currentQ, visited |-> visited]
    ELSE [currentQ |-> index, visited |-> visited \cup {index}]

goToQuestion(index) ==
    /\ currentQ' = goToTarget(index).currentQ
    /\ visited' = goToTarget(index).visited

\* variant: a click always stores the option (no deselect)
toggledAlwaysSet(prev, qNum, option) ==
    [prev EXCEPT ![qNum] = option]

\* variant: the other entries of the map are dropped (no spread of prev)
toggledDropsOthers(prev, qNum, option) ==
    [NoAnswers EXCEPT ![qNum] = IF prev[qNum] = option THEN Absent ELSE option]

\* the updater selectAnswer passes to setAnswers
toggled(prev, qNum, option) ==
    [prev EXCEPT ![qNum] = IF @ = option THEN Absent ELSE option]

\* variant: the answer is stored under the 0-based index plus two
selectAnswerNextKey(qNum, option) ==
    IF rendered.submitted
    THEN UNCHANGED answers
    ELSE answers' = toggled(answers, (qNum % MaxQuestions) + 1, option)

selectAnswer(qNum, option) ==
    IF rendered.submitted
    THEN UNCHANGED answers
    ELSE answers' = toggled(answers, qNum, option)

\* variant: advances without the last-question test
saveAndNextUnguarded ==
    /\ currentQ' = rendered.currentQ + 1
    /\ visited' = visited \cup {rendered.currentQ + 1}

\* variant: wraps to the first question after the last
saveAndNextWraps ==
    IF rendered.currentQ < Len(rendered.questions) - 1
    THEN goToQuestion(rendered.currentQ + 1)
    ELSE goToQuestion(0)

saveAndNext ==
    IF rendered.currentQ < Len(rendered.questions) - 1
    THEN goToQuestion(rendered.currentQ + 1)
    ELSE UNCHANGED <<currentQ, visited>>

\* variant: marks the question without advancing
saveAndMarkForReviewStays ==
    /\ markedForReview' = markedForReview \cup {rendered.currentQ}
    /\ UNCHANGED <<currentQ, visited>>

saveAndMarkForReview ==
    /\ markedForReview' = markedForReview \cup {rendered.currentQ}
    /\ IF rendered.currentQ < Len(rendered.questions) - 1
       THEN goToQuestion(rendered.currentQ + 1)
       ELSE UNCHANGED <<currentQ, visited>>

\* delete next[qNum] when qNum is truthy
deleteAnswer(qNum) ==
    IF qNum # 0
    THEN answers' = [answers EXCEPT ![qNum] = Absent]
    ELSE UNCHANGED answers

\* variant: keeps the current answer
markForReviewAndNextKeepsAnswer ==
    /\ markedForReview' = markedForReview \cup {rendered.currentQ}
    /\ UNCHANGED answers
    /\ IF rendered.currentQ < Len(rendered.questions) - 1
       THEN goToQuestion(rendered.currentQ + 1)
       ELSE UNCHANGED <<currentQ, visited>>

\* variant: the mark goes to the question advanced to
markForReviewAndNextMarksNext ==
    /\ markedForReview' = markedForReview \cup {rendered.currentQ + 1}
    /\ deleteAnswer(questionNumber(rendered, rendered.currentQ))
    /\ IF rendered.currentQ < Len(rendered.questions) - 1
       THEN goToQuestion(rendered.currentQ + 1)
       ELSE UNCHANGED <<currentQ, visited>>

markForReviewAndNext ==
    /\ markedForReview' = markedForReview \cup {rendered.currentQ}
    /\ deleteAnswer(questionNumber(rendered, rendered.currentQ))
    /\ IF rendered.currentQ < Len(rendered.questions) - 1
       THEN goToQuestion(rendered.currentQ + 1)
       ELSE UNCHANGED <<currentQ, visited>>

\* variant: clears every answer, not only the current one
clearResponseAll ==
    /\ answers' = NoAnswers
    /\ markedForReview' = markedForReview \ {rendered.currentQ}

clearResponse ==
    /\ deleteAnswer(questionNumber(rendered, rendered.currentQ))
    /\ markedForReview' = markedForReview \ {rendered.currentQ}

\* ------------------------------------------------- derived by a render
\* answers, visited and markedForReview are set only by click handlers, whose
\* re-render is part of the step, so a render reads their current values.

\* variant: the answer is tested before the review mark
getQuestionStatusAnsweredFirst(index) ==
    IF questionNumber(rendered, index) # 0
         /\ answers[questionNumber(rendered, index)] # Absent
    THEN "answered"
    ELSE IF index \in markedForReview THEN "review"
    ELSE IF index \in visited THEN "not-answered"
    ELSE "not-visited"

getQuestionStatus(index) ==
    IF index \in markedForReview THEN "review"
    ELSE IF questionNumber(rendered, index) # 0
              /\ answers[questionNumber(rendered, index)] # Absent
    THEN "answered"
    ELSE IF index \in visited THEN "not-answered"
    ELSE "not-visited"

\* Object.keys(answers).filter(k => answers[parseInt(k)]).length
answeredCount == Cardinality({k \in QNums : answers[k] # Absent})

totalQ == Len(rendered.questions)

\* visited.size - answeredCount - markedForReview.size
notAnsweredCount ==
    Cardinality(visited) - answeredCount - Cardinality(markedForReview)

\* variant: the raw count is shown without the clamp
notAnsweredShownRaw == notAnsweredCount

\* the number the legend shows for Not Answered
notAnsweredShown == IF notAnsweredCount < 0 THEN 0 ELSE notAnsweredCount

reviewCount == Cardinality(markedForReview)

\* variant: counts the unmarked questions
notVisitedCountByMarks == totalQ - Cardinality(markedForReview)

notVisitedCount == totalQ - Cardinality(visited)

\* ------------------------------------------------------- user input
\* The exam layout is on screen: the last render passed the loading and the
\* no-questions returns.  Input is enumerated in the last UserWindow seconds.
ExamShown ==
    /\ mounted
    /\ ~rendered.loading
    /\ Len(rendered.questions) > 0
    /\ timeLeft <= UserWindow

Untouched == UNCHANGED <<quiz, questions, timeLeft, loading, user, loadPc,
                         mounted, route>>

\* SUBMIT, disabled={submitted}
SubmitClick ==
    /\ ExamShown
    /\ ~rendered.submitted
    /\ handleSubmit(SubmitClosure(rendered))
    /\ UNCHANGED <<answers, currentQ, visited, markedForReview>>
    /\ Untouched
    /\ Commit

\* a button of the question grid (never disabled)
GridClick(idx) ==
    /\ ExamShown
    /\ idx \in 0..(Len(rendered.questions) - 1)
    /\ goToQuestion(idx)
    /\ UNCHANGED <<answers, markedForReview, submitted, attempts, calls>>
    /\ Untouched
    /\ Commit

\* an option card of the current question (a div, never disabled)
OptionClick(opt) ==
    /\ ExamShown
    /\ selectAnswer(questionNumber(rendered, rendered.currentQ), opt)
    /\ UNCHANGED <<currentQ, visited, markedForReview, submitted, attempts, calls>>
    /\ Untouched
    /\ Commit

\* SAVE & NEXT, disabled={submitted}
SaveAndNextClick ==
    /\ ExamShown
    /\ ~rendered.submitted
    /\ saveAndNext
    /\ UNCHANGED <<answers, markedForReview, submitted, attempts, calls>>
    /\ Untouched
    /\ Commit

\* SAVE & MARK FOR REVIEW, disabled={submitted}
SaveAndMarkClick ==
    /\ ExamShown
    /\ ~rendered.submitted
    /\ saveAndMarkForReview
    /\ UNCHANGED <<answers, submitted, attempts, calls>>
    /\ Untouched
    /\ Commit

\* CLEAR RESPONSE, disabled={submitted}
ClearClick ==
    /\ ExamShown
    /\ ~rendered.submitted
    /\ clearResponse
    /\ UNCHANGED <<currentQ, visited, submitted, attempts, calls>>
    /\ Untouched
    /\ Commit

\* MARK FOR REVIEW & NEXT, disabled={submitted}
MarkAndNextClick ==
    /\ ExamShown
    /\ ~rendered.submitted
    /\ markForReviewAndNext
    /\ UNCHANGED <<submitted, attempts, calls>>
    /\ Untouched
    /\ Commit

\* BACK, disabled={currentQ === 0 || submitted}
BackClick ==
    /\ ExamShown
    /\ ~(rendered.currentQ = 0 \/ rendered.submitted)
    /\ goToQuestion(rendered.currentQ - 1)
    /\ UNCHANGED <<answers, markedForReview, submitted, attempts, calls>>
    /\ Untouched
    /\ Commit

\* NEXT, disabled={currentQ === totalQ - 1 || submitted}
NextClick ==
    /\ ExamShown
    /\ ~(rendered.currentQ = Len(rendered.questions) - 1 \/ rendered.submitted)
    /\ goToQuestion(rendered.currentQ + 1)
    /\ UNCHANGED <<answers, markedForReview, submitted, attempts, calls>>
    /\ Untouched
    /\ Commit

\* "Back to Dashboard" of the no-questions card
BackToDashboard ==
    /\ mounted
    /\ ~rendered.loading
    /\ Len(rendered.questions) = 0
    /\ route' = "dashboard"
    /\ mounted' = FALSE
    /\ interval' = NoInterval
    /\ UNCHANGED <<state, rendered, loadPc, attempts, calls>>

\* ------------------------------------------------------------ the states
NoQuestions == ~loading /\ Len(questions) = 0
InProgress == ~loading /\ Len(questions) > 0 /\ ~submitted

\* ==================================================================
\* C1: submission is exactly-once: at most one attempt is ever sent to
\* the persistence sink, and exactly one once a trigger passed the guard
\* (submitted is true).
C1_ExactlyOnce ==
    Len(attempts) = (IF submitted THEN 1 ELSE 0)

\* C2: the answers carried by an emitted attempt are the session's answers
\* at the moment of submission.
C2_EmittedAnswersAreCurrent ==
    [][Len(attempts') > Len(attempts)
         => attempts'[Len(attempts')].answers = answers]_vars

\* C3: in a session with questions, timeLeft = 0 reached by ticking means
\* the session is submitted (timeLeft starts above 0, so after loading it
\* is 0 only by ticking).
C3_ExpirySubmits ==
    (~loading /\ Len(questions) > 0 /\ timeLeft = 0) => submitted

\* C4: submitted is terminal: once true it is never false again.
C4_SubmittedTerminal ==
    [][submitted => submitted']_vars

\* a persistence result arrived (here a failure) after submission
C4_Witness ==
    /\ submitted
    /\ \E i \in DOMAIN calls : calls[i].pc = "done" /\ ~calls[i].attemptData

\* C5: once submitted is true, currentQ never changes.
C5_CurrentFrozen ==
    [][submitted => currentQ' = currentQ]_vars

\* C6: once submitted is true, neither answers nor markedForReview changes.
C6_AnswersFrozen ==
    [][submitted => (answers' = answers /\ markedForReview' = markedForReview)]_vars

\* C7: a session whose load completed with no questions never becomes
\* submitted and never emits an attempt.
C7_NoQuestionsTerminal ==
    NoQuestions => (~submitted /\ attempts = <<>>)

\* C8: timeLeft is decremented only in InProgress, and never changes once
\* submitted is true.
C8_TicksOnlyInProgress ==
    [][/\ (timeLeft' < timeLeft => InProgress)
       /\ (submitted => timeLeft' = timeLeft)]_vars

\* C9: timeLeft becomes timerMinutes * 60 when the quiz record is loaded,
\* afterwards every change is a decrease by exactly 1, and always
\* 0 <= timeLeft <= timerMinutes * 60.
C9_TimeLeftCountdown ==
    /\ [](0 <= timeLeft /\ timeLeft <= quiz.timerMinutes * SecondsPerMinute)
    /\ [][/\ (quiz.isNull /\ ~quiz'.isNull)
               => timeLeft' = quiz'.timerMinutes * SecondsPerMinute
          /\ ~quiz.isNull
               => (timeLeft' = timeLeft \/ timeLeft' = timeLeft - 1)]_vars

\* the countdown reached its floor by ticking
C9_Witness ==
    ~quiz.isNull /\ ~loading /\ timeLeft = 0

\* C10: with N >= 1 questions, 0 <= currentQ < N in every reachable state.
C10_CurrentInRange ==
    /\ 0 <= currentQ
    /\ Len(questions) >= 1 => currentQ < Len(questions)

\* the last question was marked for review while current: an advancing
\* handler ran at the last index and did not move past it
C10_Witness ==
    /\ Len(questions) >= 2
    /\ currentQ = Len(questions) - 1
    /\ currentQ \in markedForReview

\* the question indices of the exam layout on screen
Indices == 0..(Len(rendered.questions) - 1)

\* C11: the status of index i is decided in strict precedence: review if
\* i is marked for review; else answered if its question number has a
\* present answer; else not-answered if i is visited; else not-visited.
C11_StatusPrecedence ==
    \A i \in Indices :
        LET st == getQuestionStatus(i)
            ans == answers[rendered.questions[i + 1]] # Absent
        IN /\ (i \in markedForReview) => st = "review"
           /\ (i \notin markedForReview /\ ans) => st = "answered"
           /\ (i \notin markedForReview /\ ~ans /\ i \in visited)
                 => st = "not-answered"
           /\ (i \notin markedForReview /\ ~ans /\ i \notin visited)
                 => st = "not-visited"

\* a question both answered and marked for review shows as review
C11_Witness ==
    \E i \in Indices :
        /\ i \in markedForReview
        /\ answers[rendered.questions[i + 1]] # Absent
        /\ getQuestionStatus(i) = "review"

\* C12 as claimed: selectAnswer(q, X) twice in a row leaves q with no
\* answer whatever its prior answer was.
C12_DoubleToggleClears ==
    \A i \in Indices : \A X \in Choices :
        LET q == rendered.questions[i + 1]
        IN toggled(toggled(answers, q, X), q, X)[q] = Absent

\* C12 as amended: a click on option X of the current question q, while the
\* render is not submitted, clears q when its answer is X and sets it to X
\* otherwise; two such clicks in a row leave q absent unless its prior answer
\* was X, which they leave at X; and re-clicking the answer of a visited,
\* unmarked question makes its status not-answered and takes it out of
\* answeredCount.
C12_ToggleLaw ==
    /\ [](\A i \in Indices : \A X \in Choices :
            LET q == rendered.questions[i + 1]
            IN toggled(toggled(answers, q, X), q, X)[q]
                 = IF answers[q] = X THEN X ELSE Absent)
    /\ [][\A X \in Choices :
            (OptionClick(X) /\ ~rendered.submitted) =>
              LET q == rendered.questions[rendered.currentQ + 1]
              IN /\ answers'[q] = IF answers[q] = X THEN Absent ELSE X
                 /\ (answers[q] = X /\ currentQ \notin markedForReview)
                       => /\ getQuestionStatus(currentQ)' = "not-answered"
                          /\ answeredCount' = answeredCount - 1]_vars

\* an option click just cleared the current, unmarked question
C12_Witness ==
    /\ lastOp = "selectAnswer"
    /\ ~submitted
    /\ currentQ \notin markedForReview
    /\ answers[rendered.questions[currentQ + 1]] = Absent
    /\ getQuestionStatus(currentQ) = "not-answered"

\* the index an advancing handler moves to from index c
Advanced(c) == IF c < Len(rendered.questions) - 1 THEN c + 1 ELSE c

\* C13: markForReviewAndNext adds the pre-advance index to markedForReview,
\* leaves the pre-advance question without an answer, and advances by one
\* unless at the last question.
C13_MarkForReviewAndNext ==
    [][lastOp' = "markForReviewAndNext" =>
         LET c == currentQ
             q == rendered.questions[currentQ + 1]
         IN /\ markedForReview' = markedForReview \cup {c}
            /\ answers'[q] = Absent
            /\ \A k \in QNums \ {q} : answers'[k] = answers[k]
            /\ currentQ' = Advanced(c)]_vars

\* markForReviewAndNext just left a marked, unanswered question behind
C13_Witness ==
    /\ lastOp = "markForReviewAndNext"
    /\ currentQ >= 1
    /\ (currentQ - 1) \in markedForReview
    /\ answers[rendered.questions[currentQ]] = Absent

\* C14: saveAndMarkForReview adds the current index to markedForReview,
\* advances as saveAndNext does, and leaves the whole answers map unchanged.
C14_SaveAndMarkForReview ==
    [][lastOp' = "saveAndMarkForReview" =>
         LET c == currentQ
         IN /\ markedForReview' = markedForReview \cup {c}
            /\ currentQ' = Advanced(c)
            /\ visited' = visited \cup {Advanced(c)}
            /\ answers' = answers]_vars

\* saveAndMarkForReview just left a marked question behind, still answered
C14_Witness ==
    /\ lastOp = "saveAndMarkForReview"
    /\ currentQ >= 1
    /\ (currentQ - 1) \in markedForReview
    /\ answers[rendered.questions[currentQ]] # Absent

\* C15: saveAndNext moves to currentQ + 1 and records it as visited when
\* currentQ < N - 1, changes no session state at the last question, and
\* never changes answers or markedForReview.
C15_SaveAndNext ==
    [][lastOp' = "saveAndNext" =>
         /\ answers' = answers
         /\ markedForReview' = markedForReview
         /\ IF currentQ < Len(rendered.questions) - 1
            THEN /\ currentQ' = currentQ + 1
                 /\ visited' = visited \cup {currentQ + 1}
            ELSE state' = state]_vars

\* saveAndNext ran and the session is at the last of several questions
C15_Witness ==
    /\ lastOp = "saveAndNext"
    /\ Len(questions) >= 2
    /\ currentQ = Len(questions) - 1

\* C16: clearResponse removes the current question's answer and review
\* mark and leaves visited, currentQ, timeLeft and the answers and marks of
\* every other question unchanged.
C16_ClearResponse ==
    [][lastOp' = "clearResponse" =>
         LET c == currentQ
             q == rendered.questions[currentQ + 1]
         IN /\ answers'[q] = Absent
            /\ \A k \in QNums \ {q} : answers'[k] = answers[k]
            /\ markedForReview' = markedForReview \ {c}
            /\ UNCHANGED <<visited, currentQ, timeLeft>>]_vars

\* clearResponse just cleared the current question while another question
\* keeps its answer
C16_Witness ==
    /\ lastOp = "clearResponse"
    /\ currentQ \notin markedForReview
    /\ answers[rendered.questions[currentQ + 1]] = Absent
    /\ \E k \in QNums : answers[k] # Absent

\* indices just outside the range of the rendered questions
OutOfRange == {-1, Len(rendered.questions), Len(rendered.questions) + 1}

\* C17: goToQuestion(index) changes nothing for an index outside [0, N);
\* for an index inside it sets currentQ to index, adds index to visited,
\* leaves answers and markedForReview alone, and the status of index is
\* then never not-visited.
C17_GoToQuestion ==
    /\ [](\A index \in OutOfRange :
            goToTarget(index) = [currentQ |-> currentQ, visited |-> visited])
    /\ [][\A idx \in 0..MaxQuestions :
            GridClick(idx) =>
              /\ currentQ' = idx
              /\ visited' = visited \cup {idx}
              /\ answers' = answers
              /\ markedForReview' = markedForReview
              /\ getQuestionStatus(idx)' # "not-visited"]_vars

\* a palette click just moved to a later question that is now visited
C17_Witness ==
    /\ lastOp = "goToQuestion"
    /\ currentQ >= 1
    /\ currentQ \in visited
    /\ getQuestionStatus(currentQ) # "not-visited"

\* some handleSubmit call ended with a failed insert
InsertFailed == \E i \in DOMAIN calls : calls[i].pc = "done" /\ ~calls[i].attemptData

\* C18: when the insert of an attempt fails the session stays submitted,
\* nothing is sent again, and the user is routed to the results view
\* without an attempt id.
C18_OptimisticSubmit ==
    /\ [][\A i \in 1..(Len(calls) + 1) :
            SubmitReturns(i, FALSE) =>
              /\ submitted /\ submitted'
              /\ attempts' = attempts
              /\ route' = "results"]_vars
    /\ [][InsertFailed => (submitted' /\ attempts' = attempts)]_vars

\* the only insert failed and the user is on the results view without id
C18_Witness ==
    /\ InsertFailed
    /\ Len(attempts) = 1
    /\ submitted
    /\ route = "results"

\* C19 as claimed: every attempt sent carries total_questions equal to the
\* number of questions loaded in the session.
C19_TotalIsLoadedCount ==
    \A i \in DOMAIN attempts : attempts[i].total_questions = Len(questions)

\* number of indices the palette shows with status st
StatusCount(st) == Cardinality({i \in Indices : getQuestionStatus(i) = st})

\* indices both marked for review and answered
AnsweredAndMarked ==
    {i \in Indices : i \in markedForReview
                     /\ answers[rendered.questions[i + 1]] # Absent}

\* the exam layout of an in-progress session is rendered
ExamInProgress == ~rendered.loading /\ Len(rendered.questions) > 0 /\ ~submitted

C21_NotAnsweredClamped ==
    LET raw == Cardinality(visited)
               - Cardinality({k \in QNums : answers[k] # Absent})
               - Cardinality(markedForReview)
    IN /\ notAnsweredCount = raw
       /\ notAnsweredShown = (IF raw < 0 THEN 0 ELSE raw)
       /\ notAnsweredShown >= 0

\* the exam is on screen, a question is both answered and marked, the raw
\* count is negative and 0 is shown
C21_Witness ==
    /\ ExamInProgress
    /\ AnsweredAndMarked # {}
    /\ notAnsweredCount < 0
    /\ notAnsweredShown = 0

\* C22 as claimed: when the question query fails, loading is cleared, the
\* session is in NoQuestions and never in InProgress afterwards, and the
\* no-questions presentation is terminal: it is only left by its own
\* Back to Dashboard button.  (That Loading is left is stated on the step of
\* the failed query, which clears loading itself.)
C22_LoadFailureTerminal ==
    /\ [][(loadPc = "questions" /\ loadPc' = "done") => ~loading']_vars
    /\ [][NoQuestions => (NoQuestions' /\ ~InProgress')]_vars
    /\ [][(NoQuestions /\ mounted /\ ~rendered.loading)
            => (mounted' \/ route' = "dashboard")]_vars

\* C24 as claimed: while the quiz record is not loaded or no user is signed
\* in, no step sends an attempt or sets submitted.
C24_NoSubmitWithoutQuizOrUser ==
    [][(quiz.isNull \/ user = NoUser)
         => (attempts' = attempts /\ submitted' = submitted)]_vars

\* C25: with N >= 1 questions loaded, visited is a subset of [0, N),
\* contains 0 and currentQ, and never loses an element.
C25_VisitedInvariant ==
    /\ [](Len(questions) >= 1 =>
            /\ visited \subseteq 0..(Len(questions) - 1)
            /\ 0 \in visited
            /\ currentQ \in visited
            /\ (~rendered.loading => getQuestionStatus(currentQ) # "not-visited"))
    /\ [][visited \subseteq visited']_vars

\* the user moved to a later question; 0 is still visited
C25_Witness ==
    /\ Len(questions) >= 2
    /\ currentQ >= 1
    /\ visited = {0, currentQ}

\* C26: markedForReview is a subset of visited, an index is added to it
\* only while it is the current question, and reviewCount <= |visited| <= N.
C26_MarkedSubsetVisited ==
    /\ [](/\ markedForReview \subseteq visited
          /\ (Len(questions) >= 1 =>
                /\ reviewCount <= Cardinality(visited)
                /\ Cardinality(visited) <= Len(questions)))
    /\ [][markedForReview' \subseteq markedForReview \cup {currentQ}]_vars

\* a marked question that is no longer the current one
C26_Witness ==
    /\ markedForReview # {}
    /\ currentQ \notin markedForReview
    /\ markedForReview \subseteq visited

\* question numbers of the visited indices of the loaded set
VisitedNumbers == {questions[i + 1] : i \in visited \cap 0..(Len(questions) - 1)}

\* C27: every present answer is keyed by the question number of a visited
\* question of the loaded set and is one of A, B, C, D; hence answeredCount
\* <= |visited| <= N, and no attempt sent mentions another question.
C27_AnswersOfVisited ==
    /\ \A k \in QNums : answers[k] # Absent =>
          (k \in VisitedNumbers /\ answers[k] \in OptionKeys)
    /\ (Len(questions) >= 1 =>
          /\ answeredCount <= Cardinality(visited)
          /\ Cardinality(visited) <= Len(questions))
    /\ \A i \in DOMAIN attempts : \A k \in QNums :
          attempts[i].answers[k] # Absent =>
              k \in {questions[j] : j \in DOMAIN questions}

\* an attempt was sent with an answer while another question is unanswered
C27_Witness ==
    /\ Len(questions) >= 2
    /\ \E i \in DOMAIN attempts :
          /\ \E k \in QNums : attempts[i].answers[k] # Absent
          /\ \E k \in QNums : attempts[i].answers[k] = Absent

\* C28: selectAnswer(q, choice) changes only the answers entry of q: the
\* other answers, currentQ, visited, markedForReview, timeLeft and
\* submitted are unchanged.
C28_SelectAnswerFrame ==
    [][lastOp' = "selectAnswer" =>
         LET q == rendered.questions[currentQ + 1]
         IN /\ \A k \in QNums \ {q} : answers'[k] = answers[k]
            /\ UNCHANGED <<currentQ, visited, markedForReview, timeLeft,
                           submitted>>]_vars

\* an option of a marked question was just selected while another question
\* keeps its answer
C28_Witness ==
    /\ lastOp = "selectAnswer"
    /\ currentQ \in markedForReview
    /\ answers[rendered.questions[currentQ + 1]] # Absent
    /\ \E k \in QNums \ {rendered.questions[currentQ + 1]} : answers[k] # Absent

\* ==================================================================
\* The results view (QuizResultsPage, src/src/app/quiz/[id]/results/page.tsx)
\* of one quiz and one attempt.  db holds the rows it reads and writes;
\* results holds its hook state and the position of its load().
NullScore == -1          \* score: null of an attempt row not yet graded

\* correct_option of questions 1..n, or the answers of an attempt on them
KeyMaps(n) ==
    {c \in [QNums -> Choices \cup {Absent}] : \A k \in QNums : k > n => c[k] = Absent}

NoKey == [k \in QNums |-> Absent]
NullAttempt ==
    [isNull |-> TRUE, answers |-> NoAnswers, score |-> NullScore, isGraded |-> FALSE]

\* the page as mounted (or reloaded), with or without ?attemptId= in the URL
ResultsMounted(attemptId) ==
    [pc |-> "quiz", attemptId |-> attemptId,
     quiz |-> [isNull |-> TRUE, answerKeyUrl |-> FALSE],
     questions |-> [n |-> 0, correctOption |-> NoKey],
     attempt |-> NullAttempt, loading |-> TRUE, grading |-> FALSE,
     needsKey |-> FALSE, score |-> 0]

\* the attempt screen is not on screen and its state plays no part
AttemptScreenClosed ==
    /\ quiz = NullQuiz
    /\ questions = <<>>
    /\ answers = NoAnswers
    /\ currentQ = 0
    /\ visited = {0}
    /\ markedForReview = {}
    /\ timeLeft = 0
    /\ submitted = FALSE
    /\ loading = TRUE
    /\ rendered = InitView
    /\ interval = NoInterval
    /\ loadPc = "done"
    /\ attempts = <<>>
    /\ calls = <<>>
    /\ mounted = FALSE
    /\ lastOp = "none"

attemptVars == <<quiz, questions, answers, currentQ, visited, markedForReview,
                 timeLeft, submitted, loading, rendered, interval, loadPc,
                 attempts, calls, mounted, lastOp>>

\* The attempt row is as the attempt screen inserted it: answers on the
\* quiz's questions only, score null, is_graded false.
InitResults ==
    /\ AttemptScreenClosed
    /\ user \in Users \cup {NoUser}
    /\ route = "results"
    /\ \E n \in 0..MaxQuestions :
         db \in {[n |-> n, correct_option |-> c, answer_key_url |-> u,
                  attempt |-> [answers |-> a, score |-> NullScore,
                               is_graded |-> FALSE]]
                   : c \in KeyMaps(n), a \in KeyMaps(n), u \in BOOLEAN}
    /\ results \in {ResultsMounted(aid) : aid \in BOOLEAN}
    /\ newQuiz = "unused"

\* qs.some(q => q.correctOption)
hasCorrectAnswers(qs) == \E k \in 1..qs.n : qs.correctOption[k] # Absent

\* variant: a question without a correct option counts when unanswered
autoGradeCountsUnkeyed(qs, ans) ==
    Cardinality({k \in 1..qs.n : ans[k] = qs.correctOption[k]})

\* the score the auto-grade loop computes
autoGrade(qs, ans) ==
    Cardinality({k \in 1..qs.n : qs.correctOption[k] # Absent
                                 /\ ans[k] = qs.correctOption[k]})

\* first await of load(): the quiz row; none pushes the dashboard
ResultsLoadQuiz(found) ==
    /\ results.pc = "quiz"
    /\ IF found
       THEN /\ results' = [results EXCEPT
                             !.quiz = [isNull |-> FALSE,
                                       answerKeyUrl |-> db.answer_key_url],
                             !.pc = "questions"]
            /\ UNCHANGED route
       ELSE /\ results' = [results EXCEPT !.pc = "left"]
            /\ route' = "dashboard"
    /\ UNCHANGED <<attemptVars, user, db, newQuiz>>

\* second await: the question rows (qData || []); without an attemptId
\* load() ends here with setLoading(false)
ResultsLoadQuestions(ok) ==
    /\ results.pc = "questions"
    /\ results' = [results EXCEPT
                     !.questions = IF ok THEN [n |-> db.n,
                                               correctOption |-> db.correct_option]
                                   ELSE [n |-> 0, correctOption |-> NoKey],
                     !.pc = IF results.attemptId THEN "attempt" ELSE "done",
                     !.loading = results.attemptId]
    /\ UNCHANGED <<attemptVars, user, route, db, newQuiz>>

\* variant: grades whenever a correct option exists, graded before or not
ResultsLoadAttemptRegrades(found) ==
    /\ results.pc = "attempt"
    /\ IF ~found
       THEN results' = [results EXCEPT !.loading = FALSE, !.pc = "done"]
       ELSE LET attemptData == [isNull |-> FALSE,
                                answers |-> db.attempt.answers,
                                score |-> db.attempt.score,
                                isGraded |-> db.attempt.is_graded]
                hasCorrect == hasCorrectAnswers(results.questions)
            IN IF hasCorrect
               THEN results' = [results EXCEPT
                      !.attempt = attemptData,
                      !.score = autoGrade(results.questions, attemptData.answers),
                      !.pc = "update"]
               ELSE results' = [results EXCEPT
                      !.attempt = attemptData,
                      !.needsKey = IF ~hasCorrect /\ ~results.quiz.answerKeyUrl
                                   THEN TRUE ELSE @,
                      !.loading = FALSE,
                      !.pc = "done"]
    /\ UNCHANGED <<attemptVars, user, route, db, newQuiz>>

\* third await: the attempt row.  With a correct option on some question
\* and the row not graded, the score is computed and the update is sent;
\* otherwise needsKey is set when no question has a correct option and the
\* quiz has no answer-key URL.
ResultsLoadAttempt(found) ==
    /\ results.pc = "attempt"
    /\ IF ~found
       THEN results' = [results EXCEPT !.loading = FALSE, !.pc = "done"]
       ELSE LET attemptData == [isNull |-> FALSE,
                                answers |-> db.attempt.answers,
                                score |-> db.attempt.score,
                                isGraded |-> db.attempt.is_graded]
                hasCorrect == hasCorrectAnswers(results.questions)
            IN IF hasCorrect /\ ~attemptData.isGraded
               THEN results' = [results EXCEPT
                      !.attempt = attemptData,
                      !.score = autoGrade(results.questions, attemptData.answers),
                      !.pc = "update"]
               ELSE results' = [results EXCEPT
                      !.attempt = attemptData,
                      !.needsKey = IF ~hasCorrect /\ ~results.quiz.answerKeyUrl
                                   THEN TRUE ELSE @,
                      !.loading = FALSE,
                      !.pc = "done"]
    /\ UNCHANGED <<attemptVars, user, route, db, newQuiz>>

\* the row after update({ score, is_graded: true })
gradedRow(score) == [db.attempt EXCEPT !.score = score, !.is_graded = TRUE]

\* the update returns (its error is not looked at); setAttempt marks the
\* local copy graded and load() ends
ResultsUpdateReturns(ok) ==
    /\ results.pc = "update"
    /\ db' = IF ok THEN [db EXCEPT !.attempt = gradedRow(results.score)] ELSE db
    /\ results' = [results EXCEPT
                     !.attempt = [@ EXCEPT !.score = results.score,
                                           !.isGraded = TRUE],
                     !.loading = FALSE,
                     !.pc = "done"]
    /\ UNCHANGED <<attemptVars, user, route, newQuiz>>

\* the card with the answer-key dropzone is rendered
KeyPromptShown ==
    /\ results.pc \in {"done", "upload", "parse"}
    /\ ~results.loading
    /\ ~results.attempt.isGraded
    /\ results.needsKey

\* a PDF is dropped on the dropzone (rendered while not grading)
handleKeyUpload ==
    /\ KeyPromptShown
    /\ ~results.grading
    /\ results.pc = "done"
    /\ IF user = NoUser \/ results.quiz.isNull
       THEN UNCHANGED results
       ELSE results' = [results EXCEPT !.grading = TRUE, !.pc = "upload"]
    /\ UNCHANGED <<attemptVars, user, route, db, newQuiz>>

\* the storage upload returns; on success quizzes.answer_key_url is updated
KeyUploadReturns(ok) ==
    /\ results.pc = "upload"
    /\ IF ok
       THEN /\ db' = [db EXCEPT !.answer_key_url = TRUE]
            /\ results' = [results EXCEPT !.pc = "parse"]
       ELSE /\ UNCHANGED db
            /\ results' = [results EXCEPT !.grading = FALSE, !.pc = "done"]
    /\ UNCHANGED <<attemptVars, user, route, newQuiz>>

\* parseAnswerKey returns: the backend stored the correct options it read
\* and the window reloads, or it threw and the prompt is withdrawn
ParseAnswerKeyReturns(ok, key) ==
    /\ results.pc = "parse"
    /\ key \in KeyMaps(db.n)
    /\ IF ok
       THEN /\ db' = [db EXCEPT !.correct_option = key]
            /\ results' = ResultsMounted(results.attemptId)
       ELSE /\ UNCHANGED db
            /\ results' = [results EXCEPT !.needsKey = FALSE,
                                          !.grading = FALSE, !.pc = "done"]
    /\ UNCHANGED <<attemptVars, user, route, newQuiz>>

\* The user reloads or reopens the results view: a new mount, load() runs
\* again.  A request the old page had in flight (the score update, the
\* answer-key parse) has reached the server (done) or is lost.
ResultsReload(done, key) ==
    /\ key \in KeyMaps(db.n)
    /\ db' = IF ~done THEN db
             ELSE IF results.pc = "update"
                  THEN [db EXCEPT !.attempt = gradedRow(results.score)]
             ELSE IF results.pc = "parse"
                  THEN [db EXCEPT !.correct_option = key]
             ELSE db
    /\ results' = ResultsMounted(results.attemptId)
    /\ route' = "results"
    /\ UNCHANGED <<attemptVars, user, newQuiz>>

\* number of questions of the quiz whose stored correct option is present
\* and equals the attempt's stored answer
StoredMatches ==
    Cardinality({k \in 1..db.n : /\ db.correct_option[k] \in OptionKeys
                                 /\ db.attempt.answers[k] = db.correct_option[k]})

\* C23: an ungraded attempt is graded exactly when some question has a
\* correct option; the stored score is the number of questions whose
\* correct option is present and equals the answer, so it is between 0 and
\* the number of questions, and unanswered questions add nothing.
C23_Grading ==
    /\ [][(ResultsLoadAttempt(TRUE) /\ ~db.attempt.is_graded)
            => ((results'.pc = "update")
                  <=> (\E k \in 1..results.questions.n :
                         results.questions.correctOption[k] \in OptionKeys))]_vars
    /\ [](db.attempt.is_graded =>
            /\ db.attempt.score = StoredMatches
            /\ 0 <= db.attempt.score
            /\ db.attempt.score <= db.n
            /\ db.attempt.score
                 <= Cardinality({k \in 1..db.n : db.attempt.answers[k] # Absent}))

\* a graded attempt with one right answer and an unanswered question that
\* has a correct option
C23_Witness ==
    /\ db.attempt.is_graded
    /\ db.attempt.score = 1
    /\ \E k \in 1..db.n : /\ db.correct_option[k] # Absent
                          /\ db.attempt.answers[k] = Absent

\* C29: a score is written only for an attempt whose is_graded is false,
\* the same write sets is_graded, a load of a graded attempt writes
\* nothing, so a stored score never changes once graded; the answer-key
\* prompt is shown only for an ungraded attempt whose quiz has no correct
\* option on any question and no answer-key URL.
C29_GradedOnce ==
    /\ [](results.pc = "update"
            => (~results.attempt.isGraded /\ ~db.attempt.is_graded))
    /\ [][db.attempt' # db.attempt
            => /\ ~db.attempt.is_graded
               /\ db.attempt'.is_graded
               /\ db.attempt'.answers = db.attempt.answers]_vars
    /\ [][(ResultsLoadAttempt(TRUE) /\ db.attempt.is_graded)
            => (results'.pc = "done" /\ db' = db)]_vars
    /\ [][db.attempt.is_graded => db.attempt'.score = db.attempt.score]_vars
    /\ [](KeyPromptShown
            => /\ ~results.attempt.isNull
               /\ ~results.attempt.isGraded
               /\ ~db.attempt.is_graded
               /\ \A k \in QNums : results.questions.correctOption[k] = Absent
               /\ ~results.quiz.answerKeyUrl)

\* a later load found the attempt graded with a score and wrote nothing
C29_Witness ==
    /\ results.pc = "done"
    /\ results.attempt.isGraded
    /\ results.attempt.score >= 1
    /\ results.score = 0
    /\ db.attempt.is_graded

\* ==================================================================
\* The timer controls of the new-quiz screen (NewQuizPage,
\* src/src/app/new-quiz/page.tsx) and the quiz row handleStartQuiz inserts.
presetTimers == {15, 30, 45, 60, 90, 120}

\* Strings are sequences of characters.  The values the custom field (an
\* <input type="number">) hands to onChange.
CustomEntries ==
    { <<>>, <<"0">>, <<"1">>, <<"7">>, <<"4", "5">>, <<"3", "0", "0">>,
      <<"3", "0", "1">>, <<"-", "5">>, <<"1", ".", "5">>, <<"0", ".", "5">>,
      <<"1", "e", "2">>, <<"2", "9", "9", ".", "9">> }

Digits == <<"0", "1", "2", "3", "4", "5", "6", "7", "8", "9">>
IsDigit(c) == \E d \in 1..10 : Digits[d] = c
DigitValue(c) == (CHOOSE d \in 1..10 : Digits[d] = c) - 1

\* the longest prefix of s made of digits
RECURSIVE DigitPrefix(_)
DigitPrefix(s) ==
    IF s = <<>> \/ ~IsDigit(Head(s))
    THEN <<>>
    ELSE <<Head(s)>> \o DigitPrefix(Tail(s))

RECURSIVE DecimalValue(_, _)
DecimalValue(ds, acc) ==
    IF ds = <<>> THEN acc
    ELSE DecimalValue(Tail(ds), acc * 10 + DigitValue(Head(ds)))

NaN == [isNaN |-> TRUE, num |-> 0]

\* JavaScript parseInt(value): an optional sign, then the digits up to the
\* first character that is not one; NaN when there is no digit
parseInt(value) ==
    LET signed == value # <<>> /\ Head(value) \in {"-", "+"}
        ds == DigitPrefix(IF signed THEN Tail(value) ELSE value)
        n == DecimalValue(ds, 0)
    IN IF ds = <<>> THEN NaN
       ELSE [isNaN |-> FALSE,
             num |-> IF signed /\ Head(value) = "-" THEN 0 - n ELSE n]

NoRow == 0     \* no quiz row inserted yet

InitNewQuiz ==
    /\ AttemptScreenClosed
    /\ user \in Users \cup {NoUser}
    /\ route = "new-quiz"
    /\ db = "unused"
    /\ results = "unused"
    /\ newQuiz = [timerMinutes |-> DefaultTimer, customTimer |-> <<>>,
                  questionFile |-> FALSE, step |-> "upload", pc |-> "idle",
                  timer_minutes |-> NoRow]

\* a preset chip
handleTimerSelect(mins) ==
    /\ newQuiz.step = "upload"
    /\ newQuiz' = [newQuiz EXCEPT !.timerMinutes = mins, !.customTimer = <<>>]
    /\ UNCHANGED <<attemptVars, user, route, db, results>>

\* variant: the upper limit of the custom value is not tested
handleCustomTimerNoLimit(value) ==
    /\ newQuiz.step = "upload"
    /\ LET num == parseInt(value)
       IN newQuiz' = [newQuiz EXCEPT
                        !.customTimer = value,
                        !.timerMinutes =
                            IF ~num.isNaN /\ num.num > 0 THEN num.num ELSE @]
    /\ UNCHANGED <<attemptVars, user, route, db, results>>

\* onChange of the custom field
handleCustomTimer(value) ==
    /\ newQuiz.step = "upload"
    /\ LET num == parseInt(value)
       IN newQuiz' = [newQuiz EXCEPT
                        !.customTimer = value,
                        !.timerMinutes =
                            IF ~num.isNaN /\ num.num > 0 /\ num.num <= MaxCustomTimer
                            THEN num.num ELSE @]
    /\ UNCHANGED <<attemptVars, user, route, db, results>>

\* a PDF is dropped on the question-paper dropzone
onDropQuestion ==
    /\ newQuiz.step = "upload"
    /\ newQuiz' = [newQuiz EXCEPT !.questionFile = TRUE]
    /\ UNCHANGED <<attemptVars, user, route, db, results>>

\* the start button: the guard, then the form gives way to the processing
\* screen and the question paper is uploaded
handleStartQuiz ==
    /\ newQuiz.step = "upload"
    /\ IF user = NoUser \/ ~newQuiz.questionFile
       THEN UNCHANGED newQuiz
       ELSE newQuiz' = [newQuiz EXCEPT !.step = "processing", !.pc = "upload"]
    /\ UNCHANGED <<attemptVars, user, route, db, results>>

\* the storage upload returns; an error is thrown to the catch
StartUploadReturns(ok) ==
    /\ newQuiz.pc = "upload"
    /\ newQuiz' = IF ok THEN [newQuiz EXCEPT !.pc = "insert"]
                  ELSE [newQuiz EXCEPT !.step = "upload", !.pc = "idle"]
    /\ UNCHANGED <<attemptVars, user, route, db, results>>

\* the insert into quizzes returns; the row carries timer_minutes: timerMinutes
QuizInsertReturns(ok) ==
    /\ newQuiz.pc = "insert"
    /\ newQuiz' = IF ok THEN [newQuiz EXCEPT !.timer_minutes = newQuiz.timerMinutes,
                                             !.pc = "parse"]
                  ELSE [newQuiz EXCEPT !.step = "upload", !.pc = "idle"]
    /\ UNCHANGED <<attemptVars, user, route, db, results>>

\* parsePdfUpload returns: the review page is pushed, or the catch shows the
\* form again
ParsePdfReturns(ok) ==
    /\ newQuiz.pc = "parse"
    /\ IF ok
       THEN /\ newQuiz' = [newQuiz EXCEPT !.pc = "left"]
            /\ route' = "review"
       ELSE /\ newQuiz' = [newQuiz EXCEPT !.step = "upload", !.pc = "idle"]
            /\ UNCHANGED route
    /\ UNCHANGED <<attemptVars, user, db, results>>

\* C30: timerMinutes of the new-quiz screen starts at 30 and is always an
\* integer in [1, 300]: a preset sets it to one of 15, 30, 45, 60, 90, 120,
\* a custom entry changes it only when it parses to an integer n with
\* 0 < n <= 300 and otherwise leaves it as it was; so the timer_minutes of
\* a created quiz is in [1, 300].
C30_TimerMinutesInRange ==
    /\ newQuiz.timerMinutes = 30
    /\ [](/\ newQuiz.timerMinutes \in 1..300
          /\ newQuiz.timer_minutes # NoRow => newQuiz.timer_minutes \in 1..300)
    /\ [][\A mins \in presetTimers :
            handleTimerSelect(mins) =>
              (newQuiz'.timerMinutes = mins
               /\ mins \in {15, 30, 45, 60, 90, 120})]_vars
    /\ [][\A value \in CustomEntries :
            handleCustomTimer(value) =>
              LET n == parseInt(value)
              IN newQuiz'.timerMinutes =
                   IF ~n.isNaN /\ 0 < n.num /\ n.num <= 300
                   THEN n.num ELSE newQuiz.timerMinutes]_vars
    /\ [][newQuiz'.timer_minutes # newQuiz.timer_minutes
            => newQuiz'.timer_minutes = newQuiz.timerMinutes]_vars

\* the entry 301 was refused, 45 stayed in force and was stored with a quiz
C30_Witness ==
    /\ newQuiz.customTimer = <<"3", "0", "1">>
    /\ newQuiz.timerMinutes = 45
    /\ newQuiz.timer_minutes = 45

Next ==
    \/ Render /\ UNCHANGED <<lastOp, otherPages>>
    \/ SubmitClick /\ UNCHANGED <<lastOp, otherPages>>
    \/ \E idx \in 0..(MaxQuestions - 1) : GridClick(idx) /\ UNCHANGED <<lastOp, otherPages>>
    \/ \E opt \in Choices : OptionClick(opt) /\ UNCHANGED <<lastOp, otherPages>>
    \/ SaveAndNextClick /\ UNCHANGED <<lastOp, otherPages>>
    \/ SaveAndMarkClick /\ UNCHANGED <<lastOp, otherPages>>
    \/ ClearClick /\ UNCHANGED <<lastOp, otherPages>>
    \/ MarkAndNextClick /\ UNCHANGED <<lastOp, otherPages>>
    \/ BackClick /\ UNCHANGED <<lastOp, otherPages>>
    \/ NextClick /\ UNCHANGED <<lastOp, otherPages>>
    \/ BackToDashboard /\ UNCHANGED <<lastOp, otherPages>>
    \/ LoadQuizFails /\ UNCHANGED <<lastOp, otherPages>>
    \/ \E m \in 1..MaxTimerMinutes : LoadQuiz(m) /\ UNCHANGED <<lastOp, otherPages>>
    \/ \E n \in 0..MaxQuestions : LoadQuestions(n) /\ UNCHANGED <<lastOp, otherPages>>
    \/ \E u \in Users \cup {NoUser} : AuthChange(u) /\ UNCHANGED <<lastOp, otherPages>>
    \/ \E i \in 1..2, ok \in BOOLEAN : SubmitReturns(i, ok) /\ UNCHANGED <<lastOp, otherPages>>
    \/ Tick /\ UNCHANGED <<lastOp, otherPages>>

Spec == Init /\ [][Next]_vars

\* The steps of one session with the history variable kept: lastOp names
\* the handler a click ran and is "none" after every other step.  The auth
\* context stays as it was at mount (signed in or not); the handlers this
\* specification is used for do not read it.
NextOps ==
    \/ Render /\ lastOp' = "none" /\ UNCHANGED otherPages
    \/ SubmitClick /\ lastOp' = "handleSubmit" /\ UNCHANGED otherPages
    \/ \E idx \in 0..(MaxQuestions - 1) : GridClick(idx) /\ lastOp' = "goToQuestion" /\ UNCHANGED otherPages
    \/ \E opt \in Choices : OptionClick(opt) /\ lastOp' = "selectAnswer" /\ UNCHANGED otherPages
    \/ SaveAndNextClick /\ lastOp' = "saveAndNext" /\ UNCHANGED otherPages
    \/ SaveAndMarkClick /\ lastOp' = "saveAndMarkForReview" /\ UNCHANGED otherPages
    \/ ClearClick /\ lastOp' = "clearResponse" /\ UNCHANGED otherPages
    \/ MarkAndNextClick /\ lastOp' = "markForReviewAndNext" /\ UNCHANGED otherPages
    \/ BackClick /\ lastOp' = "goToQuestion" /\ UNCHANGED otherPages
    \/ NextClick /\ lastOp' = "goToQuestion" /\ UNCHANGED otherPages
    \/ BackToDashboard /\ lastOp' = "none" /\ UNCHANGED otherPages
    \/ LoadQuizFails /\ lastOp' = "none" /\ UNCHANGED otherPages
    \/ \E m \in 1..MaxTimerMinutes : LoadQuiz(m) /\ lastOp' = "none" /\ UNCHANGED otherPages
    \/ \E n \in 0..MaxQuestions : LoadQuestions(n) /\ lastOp' = "none" /\ UNCHANGED otherPages
    \/ \E i \in 1..2, ok \in BOOLEAN : SubmitReturns(i, ok) /\ lastOp' = "none" /\ UNCHANGED otherPages
    \/ Tick /\ lastOp' = "none" /\ UNCHANGED otherPages

SpecOps == Init /\ [][NextOps]_vars

NextResults ==
    \/ \E found \in BOOLEAN : ResultsLoadQuiz(found)
    \/ \E ok \in BOOLEAN : ResultsLoadQuestions(ok)
    \/ \E found \in BOOLEAN : ResultsLoadAttempt(found)
    \/ \E ok \in BOOLEAN : ResultsUpdateReturns(ok)
    \/ handleKeyUpload
    \/ \E ok \in BOOLEAN : KeyUploadReturns(ok)
    \/ \E ok \in BOOLEAN, key \in KeyMaps(MaxQuestions) : ParseAnswerKeyReturns(ok, key)
    \/ \E done \in BOOLEAN, key \in KeyMaps(MaxQuestions) : ResultsReload(done, key)

SpecResults == InitResults /\ [][NextResults]_vars

NextNewQuiz ==
    \/ \E mins \in presetTimers : handleTimerSelect(mins)
    \/ \E value \in CustomEntries : handleCustomTimer(value)
    \/ onDropQuestion
    \/ handleStartQuiz
    \/ \E ok \in BOOLEAN : StartUploadReturns(ok)
    \/ \E ok \in BOOLEAN : QuizInsertReturns(ok)
    \/ \E ok \in BOOLEAN : ParsePdfReturns(ok)

SpecNewQuiz == InitNewQuiz /\ [][NextNewQuiz]_vars
====
